---- MODULE Spec2Model ----
(***************************************************************************)
(* Model of react-analyzer's import graph construction (src/extract.rs),   *)
(* dead-file / unknown-import classification, export aggregation,          *)
(* closest-tsconfig selection and alias substitution (src/ts_config.rs,    *)
(* src/path_utils.rs), dependency usage counting (src/package_json.rs)     *)
(* and the parallel scan (src/scan.rs).                                    *)
(*                                                                         *)
(* Strings that hold paths or import specifiers are modelled as the        *)
(* sequence of their '/'-separated segments: "Foo/index.ts" is             *)
(* <<"Foo", "index.ts">>, "./b" is <<".", "b">>, "lodash/" is              *)
(* <<"lodash", "">> and the empty string is <<>>.  Paths of the tree are    *)
(* relative to the scanned root, as produced by strip_prefix(root_prefix); *)
(* an absolute path starts with the component RootDir.                     *)
(* Option<T> is modelled as a sequence of length at most one.              *)
(***************************************************************************)
EXTENDS Integers, Sequences, FiniteSets, TLC

VARIABLES
    pc,              \* position in extract(): "loop", "graph", "dead", "done", "panic", "abort"; or in a single call
    files,           \* the ParsedFile list consumed so far by `for file in files`
    node_map,        \* HashMap<String, Node> of extract_import_graph
    node_count,      \* next node id
    edge_count,      \* next edge id
    edges,           \* Vec<Edge>
    nodes,           \* ImportGraph.nodes (node_map.values(); order unspecified, kept as a set)
    dependencies,    \* declared dependency names handed to extract_dead_files
    dead_files,      \* first component of extract_dead_files' result (as a set)
    unknown_imports, \* second component of extract_dead_files' result (as a set)
    exports,         \* result of extract_exports (as a set of FileExports)
    disk,            \* paths for which Path::exists holds when extract_dead_files runs
    ts_configs,      \* Vec<TypeScriptConfig> handed to get_closest
    cpath,           \* the path handed to get_closest
    closest,         \* Option<&TypeScriptConfig> returned by get_closest
    res_import,      \* Option<Import>: the import whose key is being resolved on its own
    res_src,         \* Option<String>: the key that import resolved to
    package_jsons,   \* Vec<PackageJson> handed to extract_package_json
    usage,           \* PackageJsonExtract.dependencies: name -> number of imports
    dist_a,          \* first argument handed to path_distance
    dist_b,          \* second argument handed to path_distance
    distance,        \* Option<usize> returned by path_distance
    call_a,          \* path_distance call by call: first argument of the innermost call
    call_b,          \* path_distance call by call: second argument of the innermost call
    depth,           \* path_distance call by call: recursive calls made so far
    norm_path,       \* argument of normalize_path
    norm_ret,        \* Option<PathBuf> returned by normalize_path
    all_files,       \* scan: the paths found by find_files, in submission order
    threads,         \* scan: length of the Vec collected from the pool.execute calls so far
    jobs,            \* scan: closures queued in the thread pool, not yet started
    running,         \* scan: closures a pool thread is executing (parsed, not yet sent)
    channel,         \* scan: ParsedFiles sent on tx and not yet received
    parsed_files,    \* scan: the Vec the coordinator pushes received files to
    found_package_json,   \* scan: f.package_json, the package.json files not yet parsed
    found_ts_config,      \* scan: f.ts_config, the tsconfig.json files not yet validated
    parsed_package_jsons, \* scan: the Vec<PackageJson> package_json::parse has built so far
    panic_message    \* scan: Option: the message and file of the expect() that ended the run

vars == <<pc, files, node_map, node_count, edge_count, edges, nodes,
          dependencies, dead_files, unknown_imports, exports, disk,
          ts_configs, cpath, closest, res_import, res_src, package_jsons, usage,
          dist_a, dist_b, distance, call_a, call_b, depth, norm_path, norm_ret,
          all_files, threads, jobs, running, channel, parsed_files,
          found_package_json, found_ts_config, parsed_package_jsons, panic_message>>

closestVars == <<ts_configs, cpath, closest>>
builderVars == <<files, node_map, node_count, edge_count>>
aliasVars == <<res_import, res_src>>
pkgVars == <<package_jsons, usage>>
distVars == <<dist_a, dist_b, distance, call_a, call_b, depth>>
normVars == <<norm_path, norm_ret>>
poolVars == <<all_files, threads, jobs, running, channel, parsed_files>>
configVars == <<found_package_json, found_ts_config, parsed_package_jsons, panic_message>>
scanVars == <<poolVars, configVars>>

-----------------------------------------------------------------------------
(* Bounds *)

MaxFiles == 2        \* parsed files per run
MaxImports == 2      \* import statements per run (over all files)

-----------------------------------------------------------------------------
(* Option and map helpers *)

None == <<>>
Some(v) == <<v>>

MapInsert(m, k, v) == (k :> v) @@ m
MapRemove(m, k) == [x \in (DOMAIN m) \ {k} |-> m[x]]
MapValues(m) == {m[k] : k \in DOMAIN m}

Front(s) == SubSeq(s, 1, Len(s) - 1)
Last(s) == s[Len(s)]

IsPrefixOf(p, q) == Len(p) <= Len(q) /\ SubSeq(q, 1, Len(p)) = p

-----------------------------------------------------------------------------
(* std::path operations on the modelled names *)

\* File names of the modelled source tree that carry an extension.
TsNames == {"a.ts", "b.ts", "index.ts", "gone.ts"}

\* Path::file_stem of a single component
Stem(n) ==
    CASE n = "a.ts" -> "a"
      [] n = "b.ts" -> "b"
      [] n = "index.ts" -> "index"
      [] n = "gone.ts" -> "gone"
      [] n = "style.css" -> "style"
      [] OTHER -> n

\* Path::extension of a single component ("" when there is none)
Ext(n) ==
    CASE n \in TsNames -> "ts"
      [] n = "style.css" -> "css"
      [] OTHER -> ""

\* PathBuf::from(s).components() for a root-relative string: empty segments
\* and "." segments carry no component ("." and ".." are kept apart below).
CurDir == "."
ParentDir == ".."

\* Component::RootDir, the first component of an absolute path ("/foo" has the
\* components <<RootDir, "foo">>)
RootDir == "/"

\* PathBuf::pop: drop the last component, no effect on the empty path or on "/"
PathPop(p) == IF p = <<>> \/ p = <<RootDir>> THEN p ELSE Front(p)

\* Path::with_extension("") followed by file_name(): the stem of the last component
FileStemOf(p) == IF p = <<>> THEN "" ELSE Stem(Last(p))

\* Path::with_extension("") followed by parent(): the directory, "" if none
DirOf(p) == IF p = <<>> THEN <<>> ELSE Front(p)

\* Path::with_extension(ext) on a non-empty path
WithExtension(p, ext) ==
    IF p = <<>> THEN p
    ELSE Front(p) \o << IF ext = "" THEN Stem(Last(p))
                        ELSE Stem(Last(p)) \o "." \o ext >>

\* src/extract.rs:83-97  purely lexical: "." dropped, ".." pops, names (and a
\* leading RootDir) pushed
RECURSIVE NormalizeFrom(_, _)
NormalizeFrom(ret, rest) ==
    IF rest = <<>> THEN ret
    ELSE LET c == Head(rest) IN
         IF c = "" \/ c = CurDir THEN NormalizeFrom(ret, Tail(rest))
         ELSE IF c = ParentDir THEN NormalizeFrom(PathPop(ret), Tail(rest))
         ELSE NormalizeFrom(Append(ret, c), Tail(rest))

\* Faulty variant: only "." is dropped, ".." is kept
NormalizeKeepParent(p) == SelectSeq(p, LAMBDA c : c # "" /\ c # CurDir)

\* src/extract.rs:74-99
normalize_path(p) == NormalizeFrom(<<>>, p)

\* String::starts_with(".") on a specifier
StartsWithDot(src) == src # <<>> /\ src[1] \in {CurDir, ParentDir}

\* String::ends_with('/') on a specifier
EndsWithSlash(src) == Len(src) >= 2 /\ Last(src) = ""

-----------------------------------------------------------------------------
(* Sequences over a pool *)

RECURSIVE SeqsUpTo(_, _)
SeqsUpTo(S, n) ==
    IF n = 0 THEN {<<>>}
    ELSE LET shorter == SeqsUpTo(S, n - 1) IN
         shorter \cup {Append(q, x) : q \in shorter, x \in S}

\* Lists without repetition
DistinctSeqs(S, n) ==
    {q \in SeqsUpTo(S, n) : \A i, j \in 1..Len(q) : i # j => q[i] # q[j]}

PermutationsOf(q) ==
    {[i \in 1..Len(q) |-> q[f[i]]] :
        f \in {g \in [1..Len(q) -> 1..Len(q)] :
                 \A i, j \in 1..Len(q) : i # j => g[i] # g[j]}}

-----------------------------------------------------------------------------
(* get_closest: the tsconfig.json that applies to a path *)

\* Faulty variant: the difference in depth, plus one when the paths differ
PathDistanceDepthGap(path_a, path_b) ==
    IF path_a = path_b THEN 0
    ELSE IF Len(path_a) > Len(path_b) THEN Len(path_a) - Len(path_b) + 1
    ELSE Len(path_b) - Len(path_a) + 1

\* src/path_utils.rs:4-20  (the arguments are the components of the two PathBufs)
RECURSIVE path_distance(_, _)
path_distance(path_a, path_b) ==
    IF path_a = path_b THEN 0
    ELSE IF Len(path_a) > Len(path_b)
         THEN 1 + path_distance(PathPop(path_a), path_b)
         ELSE 1 + path_distance(path_a, PathPop(path_b))

\* src/ts_config.rs:60-61  the directory of a config: its file path without the file name
ConfigDir(config) == PathPop(config.file_path[1])

\* Faulty variant: the first enclosing config is kept, a closer one never replaces it
ClosestStepFirstWins(cl, config, path) ==
    IF IsPrefixOf(ConfigDir(config), path) /\ cl.closest = None
    THEN [closest |-> Some(config),
          closest_distance |-> path_distance(path, ConfigDir(config))]
    ELSE cl

\* src/ts_config.rs:62-77  one iteration of the loop over the configs
ClosestStep(cl, config, path) ==
    IF IsPrefixOf(ConfigDir(config), path)
    THEN IF cl.closest = None
         THEN [closest |-> Some(config),
               closest_distance |-> path_distance(path, ConfigDir(config))]
         ELSE LET config_distance == path_distance(ConfigDir(config), path) IN
              IF config_distance < cl.closest_distance
              THEN [closest |-> Some(config), closest_distance |-> config_distance]
              ELSE cl
    ELSE cl

RECURSIVE ClosestFrom(_, _, _)
ClosestFrom(cl, rest, path) ==
    IF rest = <<>> THEN cl.closest
    ELSE ClosestFrom(ClosestStep(cl, Head(rest), path), Tail(rest), path)

\* Faulty variant: the first config of the list, whether it encloses the path or not
GetFirstConfig(configs, path) == IF configs = <<>> THEN None ELSE Some(configs[1])

\* src/ts_config.rs:55-80
get_closest(configs, path) ==
    ClosestFrom([closest |-> None, closest_distance |-> 0], configs, path)

-----------------------------------------------------------------------------
(* Alias substitution: str operations on specifiers and alias patterns *)

\* starts_with, strip_suffix and replace work on characters, not on segments.
\* For them a string is the sequence of its atoms: "/" and "*" are atoms, and a
\* segment is one atom unless listed here.  The atoms are cut so that an alias
\* pattern of the modelled configs occurs in a modelled string only at atom
\* boundaries ("webapp" holds "app", "@app" holds "app").
AtomsOf(seg) ==
    CASE seg = "" -> <<>>
      [] seg = "@app" -> <<"@", "app">>
      [] seg = "webapp" -> <<"web", "app">>
      [] seg = "weblib" -> <<"web", "lib">>
      [] OTHER -> <<seg>>

\* the characters of a string given by its '/'-separated segments
RECURSIVE Atoms(_)
Atoms(segs) ==
    IF segs = <<>> THEN <<>>
    ELSE IF Len(segs) = 1 THEN AtomsOf(segs[1])
    ELSE AtomsOf(Head(segs)) \o <<"/">> \o Atoms(Tail(segs))

\* str::split('/') of a string given by its atoms
RECURSIVE SegmentsFrom(_, _)
SegmentsFrom(cur, rest) ==
    IF rest = <<>> THEN <<cur>>
    ELSE IF Head(rest) = "/" THEN <<cur>> \o SegmentsFrom("", Tail(rest))
    ELSE SegmentsFrom(cur \o Head(rest), Tail(rest))

Segments(atoms) == IF atoms = <<>> THEN <<>> ELSE SegmentsFrom("", atoms)

\* str::ends_with("*")
EndsWithStar(atoms) == atoms # <<>> /\ Last(atoms) = "*"

\* str::replace: every non-overlapping occurrence, from the left.  (An empty
\* pattern matches between all characters; no modelled pattern is empty.)
RECURSIVE Replace(_, _, _)
Replace(s, pat, val) ==
    IF s = <<>> THEN (IF pat = <<>> THEN val ELSE <<>>)
    ELSE IF pat = <<>> THEN val \o <<Head(s)>> \o Replace(Tail(s), pat, val)
    ELSE IF IsPrefixOf(pat, s)
         THEN val \o Replace(SubSeq(s, Len(pat) + 1, Len(s)), pat, val)
         ELSE <<Head(s)>> \o Replace(Tail(s), pat, val)

\* Path::join with the path a string denotes: an absolute path replaces the base
PathJoin(base, segs) ==
    IF Len(segs) >= 2 /\ segs[1] = "" THEN <<RootDir>> \o Tail(segs) ELSE base \o segs

\* Path::display().to_string() of a normalized path, as segments
Display(p) ==
    IF p # <<>> /\ p[1] = RootDir
    THEN (IF Len(p) = 1 THEN <<"", "">> ELSE <<"">> \o Tail(p))
    ELSE p

\* src/ts_config.rs:82-84
get_aliases(ts_config) ==
    IF ts_config = None THEN None
    ELSE IF ts_config[1].compiler_options = None THEN None
    ELSE ts_config[1].compiler_options[1].paths

\* src/ts_config.rs:85-87
get_base_path(ts_config) ==
    IF ts_config = None THEN None
    ELSE IF ts_config[1].compiler_options = None THEN None
    ELSE ts_config[1].compiler_options[1].base_url

\* Outcome of resolving a specifier: the key, or a panic on the way
Resolved(key) == [panicked |-> FALSE, src |-> key]
Panicked == [panicked |-> TRUE, src |-> <<>>]

\* src/extract.rs:230-252  one iteration of `for alias in aliases.into_keys()`;
\* st.src is the current value of `src`
AliasStep(st, alias, aliases, ts_config, base_path) ==
    IF st.panicked THEN st
    ELSE IF aliases[alias] = <<>> THEN Panicked
    ELSE LET pattern == Atoms(alias)
             target == Atoms(aliases[alias][1])
         IN IF EndsWithStar(pattern) /\ ~ EndsWithStar(target) THEN Panicked
            ELSE LET my_alias == IF EndsWithStar(pattern) THEN Front(pattern) ELSE pattern
                     value == IF EndsWithStar(pattern) THEN Front(target) ELSE target
                 IN IF IsPrefixOf(my_alias, Atoms(st.src))
                    THEN LET dir == ConfigDir(ts_config)
                             path == IF base_path = None THEN dir
                                     ELSE PathJoin(dir, base_path[1])
                             replaced == Segments(Replace(Atoms(st.src), my_alias, value))
                         IN Resolved(Display(normalize_path(PathJoin(path, replaced))))
                    ELSE st

\* src/extract.rs:229-253  the loop over the alias keys, in the order the map yields them
RECURSIVE AliasLoop(_, _, _, _, _)
AliasLoop(st, order, aliases, ts_config, base_path) ==
    IF order = <<>> THEN st
    ELSE AliasLoop(AliasStep(st, Head(order), aliases, ts_config, base_path),
                   Tail(order), aliases, ts_config, base_path)

\* HashMap::into_keys yields the keys in an unspecified order
KeyOrders(aliases) ==
    IF aliases = None THEN {<<>>}
    ELSE {q \in DistinctSeqs(DOMAIN aliases[1], Cardinality(DOMAIN aliases[1])) :
             Len(q) = Cardinality(DOMAIN aliases[1])}

\* src/extract.rs:151-152  the key orders the alias loop of a file may follow
AliasOrders(configs, file_path) == KeyOrders(get_aliases(get_closest(configs, file_path)))

-----------------------------------------------------------------------------
(* extract_import_graph *)

\* Faulty variant: the directory entry is left in the map next to the file's entry
IndexMergeKeepDir(nm, file) ==
    LET dir == DirOf(file.path) IN
    IF dir \in DOMAIN nm /\ FileStemOf(file.path) = "index"
    THEN LET old == nm[dir] IN
         MapInsert(nm, file.path,
                   [id |-> old.id,
                    path |-> file.path,
                    file_name |-> Some(Last(file.path)),
                    extension |-> Some(Ext(Last(file.path))),
                    line_count |-> old.line_count])
    ELSE nm

\* Faulty variant: the directory entry is dropped but its id is not carried over
IndexMergeDropId(nm, file) ==
    LET dir == DirOf(file.path) IN
    IF dir \in DOMAIN nm /\ FileStemOf(file.path) = "index"
    THEN MapRemove(nm, dir)
    ELSE nm

\* src/extract.rs:167-185  index merge: the directory key is re-keyed to the file
IndexMerge(nm, file) ==
    LET dir == DirOf(file.path) IN
    IF dir \in DOMAIN nm /\ FileStemOf(file.path) = "index"
    THEN LET old == nm[dir] IN
         MapInsert(MapRemove(nm, dir), file.path,
                   [id |-> old.id,
                    path |-> file.path,
                    file_name |-> Some(Last(file.path)),
                    extension |-> Some(Ext(Last(file.path))),
                    line_count |-> old.line_count])
    ELSE nm

\* src/extract.rs:186-211  create the current file's node or complete it
CreateOrComplete(nm, nc, file) ==
    IF file.path \notin DOMAIN nm
    THEN [nm |-> MapInsert(nm, file.path,
                   [id |-> nc,
                    path |-> file.path,
                    file_name |-> Some(file.name),
                    extension |-> Some(file.extension),
                    line_count |-> Some(file.line_count)]),
          nc |-> nc + 1]
    ELSE LET node == nm[file.path] IN
         [nm |-> MapInsert(nm, file.path,
                   [id |-> node.id,
                    path |-> node.path,
                    file_name |-> IF node.file_name = None
                                  THEN Some(file.name) ELSE node.file_name,
                    extension |-> IF node.extension = None
                                  THEN Some(file.extension) ELSE node.extension,
                    line_count |-> IF node.line_count = None
                                   THEN Some(file.line_count) ELSE node.line_count]),
          nc |-> nc]

\* src/extract.rs:151-153,215-260  canonical key of an import of a file under the
\* given configs, the alias keys being visited in the given order
ResolveSourceIn(import, configs, order) ==
    LET ts_config == get_closest(configs, import.file_path)
        aliases == get_aliases(ts_config)
        base_path == get_base_path(ts_config)
        st == IF StartsWithDot(import.source)
              THEN Resolved(normalize_path(PathPop(import.file_path) \o import.source))
              ELSE IF aliases = None THEN Resolved(import.source)
              ELSE AliasLoop(Resolved(import.source), order, aliases[1],
                             ts_config[1], base_path)
    IN IF st.panicked THEN st
       ELSE Resolved(IF EndsWithSlash(st.src) THEN Front(st.src) ELSE st.src)

\* The key of an import in a run that loaded no tsconfig.json (ts_configs = <<>>):
\* get_closest yields None and the alias loop is not entered.
ResolveSource(import) == ResolveSourceIn(import, <<>>, <<>>).src

\* src/extract.rs:261-273  placeholder node for a key seen for the first time
EnsureSource(nm, nc, src) ==
    IF src \notin DOMAIN nm
    THEN [nm |-> MapInsert(nm, src,
                   [id |-> nc, path |-> src, file_name |-> None,
                    extension |-> None, line_count |-> None]),
          nc |-> nc + 1]
    ELSE [nm |-> nm, nc |-> nc]

\* Faulty variant: the named bindings get their edges, a default binding gets none
EmitNamedEdges(import, ec, source, target) ==
    [i \in 1..Len(import.named) |->
        [id |-> ec + i - 1, source |-> source, target |-> target,
         is_default |-> import.is_default, name |-> import.named[i]]]

\* src/extract.rs:274-295  one edge per named binding, one more for a default binding
EmitEdges(import, ec, source, target) ==
    [i \in 1..Len(import.named) |->
        [id |-> ec + i - 1, source |-> source, target |-> target,
         is_default |-> import.is_default, name |-> import.named[i]]]
    \o (IF import.is_default
        THEN << [id |-> ec + Len(import.named), source |-> source, target |-> target,
                 is_default |-> import.is_default, name |-> ""] >>
        ELSE <<>>)

\* One run of extract_import_graph over a whole file list.  `ord` gives, for each
\* config of the list, the order in which this run's HashMap yields its alias keys.
RunOrders(configs) ==
    {f \in [1..Len(configs) ->
               UNION {KeyOrders(get_aliases(Some(configs[c]))) : c \in 1..Len(configs)}] :
        \A c \in 1..Len(configs) : f[c] \in KeyOrders(get_aliases(Some(configs[c])))}

\* src/extract.rs:151-152,229  the key order of the alias table that applies to a file
OrderFor(file_path, configs, ord) ==
    LET ts_config == get_closest(configs, file_path) IN
    IF ts_config = None THEN <<>>
    ELSE ord[CHOOSE c \in 1..Len(configs) : configs[c] = ts_config[1]]

\* src/extract.rs:146-149  the builder's state before the first file
EmptyGraph == [nm |-> <<>>, nc |-> 0, es |-> <<>>, ec |-> 0, panicked |-> FALSE]

\* src/extract.rs:213-296  one iteration of `for import in &file.imports`
GraphImport(g, import, configs, order) ==
    IF g.panicked THEN g
    ELSE LET res == ResolveSourceIn(import, configs, order) IN
         IF res.panicked THEN [g EXCEPT !.panicked = TRUE]
         ELSE LET r == EnsureSource(g.nm, g.nc, res.src)
                  new == EmitEdges(import, g.ec, r.nm[res.src].id, r.nm[import.file_path].id)
              IN [nm |-> r.nm, nc |-> r.nc, es |-> g.es \o new, ec |-> g.ec + Len(new),
                  panicked |-> FALSE]

RECURSIVE GraphImports(_, _, _, _)
GraphImports(g, imports, configs, order) ==
    IF imports = <<>> THEN g
    ELSE GraphImports(GraphImport(g, Head(imports), configs, order),
                      Tail(imports), configs, order)

\* src/extract.rs:150-297  one iteration of `for file in files`
GraphFile(g, file, configs, ord) ==
    IF g.panicked THEN g
    ELSE LET r == CreateOrComplete(IndexMerge(g.nm, file), g.nc, file) IN
         GraphImports([g EXCEPT !.nm = r.nm, !.nc = r.nc], file.imports, configs,
                      OrderFor(file.path, configs, ord))

RECURSIVE GraphFiles(_, _, _, _)
GraphFiles(g, fs, configs, ord) ==
    IF fs = <<>> THEN g
    ELSE GraphFiles(GraphFile(g, Head(fs), configs, ord), Tail(fs), configs, ord)

\* src/extract.rs:142-300
extract_import_graph(fs, configs, ord) == GraphFiles(EmptyGraph, fs, configs, ord)

-----------------------------------------------------------------------------
(* extract_dead_files *)

\* Faulty variant: only the sources of the edges count as connected
ConnectedSources(es) == {es[i].source : i \in 1..Len(es)}

\* src/extract.rs:106-111  ids that are an endpoint of some edge
ConnectedNodes(es) ==
    {es[i].source : i \in 1..Len(es)} \cup {es[i].target : i \in 1..Len(es)}

\* PathBuf::from(&n.path).components() of a root-relative key
Components(p) == SelectSeq(p, LAMBDA c : c # "" /\ c # CurDir)

\* src/extract.rs:117-124  accumulate the components, compare each prefix with the names
RECURSIVE IsDepFrom(_, _, _, _)
IsDepFrom(src, rest, deps, is_dep) ==
    IF rest = <<>> THEN is_dep
    ELSE LET src1 == Append(src, Head(rest)) IN
         IsDepFrom(src1, Tail(rest), deps, IF src1 \in deps THEN TRUE ELSE is_dep)

IsDep(path, deps) == IsDepFrom(<<>>, Components(path), deps, FALSE)

\* Faulty variant: the node's extension is not put back on the path
DeadFilePathNoExtension(n) == WithExtension(Components(n.path), "")

\* src/extract.rs:126-130  root.join(path).with_extension(extension or "")
DeadFilePath(n) ==
    WithExtension(Components(n.path), IF n.extension = None THEN "" ELSE n.extension[1])

\* src/extract.rs:114-138  the class of one node: "skip", "dead" or "unknown"
DeadClass(n, es, deps, on_disk) ==
    IF n.id \in ConnectedNodes(es) THEN "skip"
    ELSE IF IsDep(n.path, deps) THEN "skip"
    ELSE IF DeadFilePath(n) \in on_disk THEN "dead"
    ELSE "unknown"

\* src/extract.rs:101-140
extract_dead_files(ns, es, deps, on_disk) ==
    [dead_files |-> {n.path : n \in {m \in ns : DeadClass(m, es, deps, on_disk) = "dead"}},
     unknown_imports |-> {n.path : n \in {m \in ns : DeadClass(m, es, deps, on_disk) = "unknown"}}]

-----------------------------------------------------------------------------
(* extract_exports *)

NodeIds(ns) == {n.id : n \in ns}

\* src/extract.rs:325-328  node_id_map.get(id)
NodeById(ns, id) == CHOOSE n \in ns : n.id = id

\* src/extract.rs:353,358  the unwrap()s fail when an edge names an id no node carries
ExportsPanics(ns, es) ==
    \E i \in 1..Len(es) : es[i].source \notin NodeIds(ns) \/ es[i].target \notin NodeIds(ns)

\* src/extract.rs:354-361  the Export records of one source, in edge order
ExportsOf(ns, es, source) ==
    LET mine == SelectSeq(es, LAMBDA e : e.source = source) IN
    [i \in 1..Len(mine) |->
        [name |-> mine[i].name,
         target |-> NodeById(ns, mine[i].target).path,
         is_default |-> mine[i].is_default]]

\* src/extract.rs:322-368  (the Vec follows HashMap order; kept as a set)
extract_exports(ns, es) ==
    {[source |-> NodeById(ns, s).path, exports |-> ExportsOf(ns, es, s)] :
        s \in {es[i].source : i \in 1..Len(es)}}

-----------------------------------------------------------------------------
(* The scanned tree and what the parser yields for it *)

\* Root-relative paths of the source files a run may parse
FilePaths == {<<"a.ts">>, <<"b.ts">>, <<"Foo", "index.ts">>}

\* Import statements a file may contain: specifier, named bindings, default binding.
\* JavaScript::parse_module yields at least one binding per recorded import.
ImportMenu ==
    { [source |-> <<".", "b">>,               named |-> <<"x">>,      is_default |-> FALSE],
      [source |-> <<".", "b.ts">>,            named |-> <<>>,         is_default |-> TRUE],
      [source |-> <<".", "Foo">>,             named |-> <<"x">>,      is_default |-> FALSE],
      [source |-> <<".", "Foo", "index.ts">>, named |-> <<"y">>,      is_default |-> TRUE],
      [source |-> <<".", "missing">>,         named |-> <<"x">>,      is_default |-> FALSE],
      [source |-> <<"..", "a.ts">>,           named |-> <<>>,         is_default |-> TRUE],
      [source |-> <<"lodash", "">>,           named |-> <<>>,         is_default |-> TRUE],
      [source |-> <<"lodash", "debounce">>,   named |-> <<"x", "y">>, is_default |-> FALSE] }

\* The files and imports of a tree that holds tsconfig.json files
AliasRunPaths == {<<"a.ts">>, <<"pkgA", "b.ts">>, <<"pkgD", "a.ts">>}
AliasRunMenu ==
    { [source |-> <<"app", "y">>,           named |-> <<"x">>,      is_default |-> FALSE],
      [source |-> <<"app", "x">>,           named |-> <<>>,         is_default |-> TRUE],
      [source |-> <<".", "b">>,             named |-> <<"x">>,      is_default |-> FALSE],
      [source |-> <<"lodash", "debounce">>, named |-> <<"x", "y">>, is_default |-> FALSE] }

\* The files a run may be handed and the imports they may hold
FilePathsUnder(configs) == IF configs = <<>> THEN FilePaths ELSE AliasRunPaths
ImportMenuUnder(configs) == IF configs = <<>> THEN ImportMenu ELSE AliasRunMenu

\* src/languages/javascript.rs:246  file_string.lines().count() of the files of the tree
LineCountOf(p) ==
    CASE p = <<"a.ts">> -> 3
      [] p = <<"b.ts">> -> 1
      [] OTHER -> 2

\* Names a package.json of the tree may declare
DepNames == {<<"lodash">>, <<"Foo">>}

\* Name of the scanned root directory (the parent of a top-level index file)
RootName == "root"

\* src/languages/javascript.rs:23-30  JavaScript::get_file_name
get_file_name(p) ==
    IF Stem(Last(p)) = "index"
    THEN (IF Len(p) >= 2 THEN Stem(p[Len(p) - 1]) ELSE RootName)
    ELSE Stem(Last(p))

\* src/languages/javascript.rs:234-254  JavaScript::parse_file
ParsedFile(p, lc, imports) ==
    [path |-> p, name |-> get_file_name(p), extension |-> Ext(Last(p)),
     line_count |-> lc, imports |-> imports]

\* src/languages/javascript.rs:65-77,92-98  an Import of the file at path p
Import(p, m) ==
    [source |-> m.source, file_path |-> p, named |-> m.named, is_default |-> m.is_default]

\* A path exists on disk iff it is a parsed file or one of its ancestor directories
OnDisk(fs) ==
    UNION {{SubSeq(fs[i].path, 1, k) : k \in 0..Len(fs[i].path)} : i \in 1..Len(fs)}

RECURSIVE ImportTotal(_)
ImportTotal(fs) == IF fs = <<>> THEN 0 ELSE Len(Head(fs).imports) + ImportTotal(Tail(fs))

-----------------------------------------------------------------------------
(* Values of the variables of a call that a run does not make *)

NoAliasCall == res_import = <<>> /\ res_src = <<>>
NoPackageJsonCall == package_jsons = <<>> /\ usage = <<>>
NoDistanceCall ==
    /\ dist_a = <<>> /\ dist_b = <<>> /\ distance = <<>>
    /\ call_a = <<>> /\ call_b = <<>> /\ depth = 0
NoNormalizeCall == norm_path = <<>> /\ norm_ret = <<>>
NoScan ==
    /\ all_files = <<>>
    /\ threads = 0
    /\ jobs = <<>>
    /\ running = {}
    /\ channel = <<>>
    /\ parsed_files = <<>>
    /\ found_package_json = <<>>
    /\ found_ts_config = <<>>
    /\ parsed_package_jsons = <<>>
    /\ panic_message = <<>>
NoBuilderRun ==
    /\ files = <<>>
    /\ node_map = <<>>
    /\ node_count = 0
    /\ edge_count = 0
    /\ edges = <<>>
    /\ nodes = {}
    /\ dead_files = {}
    /\ unknown_imports = {}
    /\ exports = {}
    /\ disk = {}
NoClosestCall == ts_configs = <<>> /\ cpath = <<>> /\ closest = <<>>

-----------------------------------------------------------------------------
(* extract(): the pipeline, one step per loop iteration / call *)

Init ==
    /\ pc = "loop"
    /\ files = <<>>
    /\ node_map = <<>>
    /\ node_count = 0
    /\ edge_count = 0
    /\ edges = <<>>
    /\ nodes = {}
    /\ dependencies = {}
    /\ dead_files = {}
    /\ unknown_imports = {}
    /\ exports = {}
    /\ disk = {}
    /\ ts_configs = <<>>
    /\ cpath = <<>>
    /\ closest = None
    /\ NoAliasCall /\ NoPackageJsonCall /\ NoDistanceCall /\ NoNormalizeCall /\ NoScan

\* src/extract.rs:150-211  next iteration of `for file in files`: register the file
BeginFile ==
    /\ pc = "loop"
    /\ Len(files) < MaxFiles
    /\ \E p \in FilePathsUnder(ts_configs) \ {files[i].path : i \in 1..Len(files)} :
          LET file == ParsedFile(p, LineCountOf(p), <<>>)
              r == CreateOrComplete(IndexMerge(node_map, file), node_count, file)
          IN /\ files' = Append(files, file)
             /\ node_map' = r.nm
             /\ node_count' = r.nc
    /\ UNCHANGED <<pc, edge_count, edges, nodes, dependencies, dead_files,
                   unknown_imports, exports, disk>>
    /\ UNCHANGED closestVars
    /\ UNCHANGED <<aliasVars, pkgVars, distVars, normVars, scanVars>>

\* src/extract.rs:213-296  next iteration of `for import in &file.imports`
ProcessImport ==
    /\ pc = "loop"
    /\ files # <<>>
    /\ ImportTotal(files) < MaxImports
    /\ \E m \in ImportMenuUnder(ts_configs) :
       \E order \in AliasOrders(ts_configs, files[Len(files)].path) :
          LET file == files[Len(files)]
              import == Import(file.path, m)
              res == ResolveSourceIn(import, ts_configs, order)
              r == EnsureSource(node_map, node_count, res.src)
              new == EmitEdges(import, edge_count, r.nm[res.src].id, r.nm[file.path].id)
          IN IF res.panicked
             THEN /\ pc' = "abort"
                  /\ UNCHANGED <<files, node_map, node_count, edges, edge_count>>
             ELSE /\ files' = [files EXCEPT ![Len(files)].imports = Append(@, import)]
                  /\ node_map' = r.nm
                  /\ node_count' = r.nc
                  /\ edges' = edges \o new
                  /\ edge_count' = edge_count + Len(new)
                  /\ pc' = pc
    /\ UNCHANGED <<nodes, dependencies, dead_files, unknown_imports, exports, disk>>
    /\ UNCHANGED closestVars
    /\ UNCHANGED <<aliasVars, pkgVars, distVars, normVars, scanVars>>

\* src/extract.rs:298-299  the loop is over, the graph is returned
ReturnGraph ==
    /\ pc = "loop"
    /\ nodes' = MapValues(node_map)
    /\ pc' = "graph"
    /\ UNCHANGED <<files, node_map, node_count, edge_count, edges, dependencies,
                   dead_files, unknown_imports, exports, disk>>
    /\ UNCHANGED closestVars
    /\ UNCHANGED <<aliasVars, pkgVars, distVars, normVars, scanVars>>

\* src/extract.rs:416-418  declared names, then extract_dead_files
ExtractDeadFiles ==
    /\ pc = "graph"
    /\ \E deps \in SUBSET DepNames :
          LET r == extract_dead_files(nodes, edges, deps, OnDisk(files)) IN
          /\ dependencies' = deps
          /\ dead_files' = r.dead_files
          /\ unknown_imports' = r.unknown_imports
    /\ disk' = OnDisk(files)
    /\ pc' = "dead"
    /\ UNCHANGED <<files, node_map, node_count, edge_count, edges, nodes, exports>>
    /\ UNCHANGED closestVars
    /\ UNCHANGED <<aliasVars, pkgVars, distVars, normVars, scanVars>>

\* src/extract.rs:419-437  extract_exports, then the Output is assembled
ExtractExports ==
    /\ pc = "dead"
    /\ IF ExportsPanics(nodes, edges)
       THEN pc' = "panic" /\ UNCHANGED exports
       ELSE pc' = "done" /\ exports' = extract_exports(nodes, edges)
    /\ UNCHANGED <<files, node_map, node_count, edge_count, edges, nodes,
                   dependencies, dead_files, unknown_imports, disk>>
    /\ UNCHANGED closestVars
    /\ UNCHANGED <<aliasVars, pkgVars, distVars, normVars, scanVars>>

Next == BeginFile \/ ProcessImport \/ ReturnGraph \/ ExtractDeadFiles \/ ExtractExports

Spec == Init /\ [][Next]_vars

-----------------------------------------------------------------------------
(* Properties of the graph builder *)

Built == pc \in {"graph", "dead", "done", "panic"}
Classified == pc \in {"dead", "done", "panic"}

MapIds(nm) == {nm[k].id : k \in DOMAIN nm}

FileIndexes == 1..Len(files)

\* The keys the imports of the parsed files resolve to
ImportKeysOf(f) == {ResolveSource(f.imports[k]) : k \in 1..Len(f.imports)}
ImportKeys == UNION {ImportKeysOf(files[i]) : i \in FileIndexes}

\* Some leading component prefix of the path is a declared name
HasDepPrefix(path, deps) == \E k \in 1..Len(path) : SubSeq(path, 1, k) \in deps

\* C1: every edge's source and target is the id of a node present in the node
\* map after every step, and of a node of the returned nodes list.
C1_GraphWellFormed ==
    /\ \A i \in 1..Len(edges) :
          edges[i].source \in MapIds(node_map) /\ edges[i].target \in MapIds(node_map)
    /\ Built => \A i \in 1..Len(edges) :
          edges[i].source \in NodeIds(nodes) /\ edges[i].target \in NodeIds(nodes)

\* C2: node paths are unique, node ids are unique, and every key of the node
\* map equals the path field of its node.
C2_NodeUniqueness ==
    /\ \A k \in DOMAIN node_map : node_map[k].path = k
    /\ \A k1, k2 \in DOMAIN node_map : k1 # k2 => node_map[k1].id # node_map[k2].id
    /\ Built => \A n1, n2 \in nodes : n1 # n2 => (n1.path # n2.path /\ n1.id # n2.id)

\* a returned graph in which an index merge took place next to other nodes
C2_Witness ==
    /\ pc = "graph"
    /\ Cardinality(nodes) >= 3
    /\ \E n \in nodes : n.file_name = Some("index.ts")

\* C3: an id once assigned is carried by some node in every later state, under
\* the same path or under that path extended by an index file name.
C3_IdStability ==
    [][\A k \in DOMAIN node_map :
          \E k2 \in DOMAIN node_map' :
             /\ node_map'[k2].id = node_map[k].id
             /\ \/ k2 = k
                \/ (Len(k2) = Len(k) + 1 /\ Front(k2) = k /\ Stem(Last(k2)) = "index")]_vars

\* C4: an index file imported through its directory ends up as exactly one
\* node, keyed by the file, with no node keyed by the directory.
C4_IndexCollapsing ==
    Built => \A i \in FileIndexes :
        (/\ FileStemOf(files[i].path) = "index"
         /\ DirOf(files[i].path) \in ImportKeys
         /\ \A j \in FileIndexes : files[j].path # DirOf(files[i].path))
        => /\ \E n \in nodes : n.path = files[i].path
           /\ ~ \E n \in nodes : n.path = DirOf(files[i].path)

IsEndToEndScenario ==
    /\ Len(files) = 2
    /\ \E i, j \in FileIndexes :
          /\ files[i].path = <<"a.ts">>
          /\ Len(files[i].imports) = 1
          /\ files[i].imports[1].source = <<".", "b">>
          /\ files[i].imports[1].named = <<"x">>
          /\ files[i].imports[1].is_default = FALSE
          /\ files[j].path = <<"b.ts">>
          /\ files[j].imports = <<>>

\* C6: for a.ts importing {x} from './b' next to b.ts the result has 2 nodes,
\* 1 edge from b.ts's node to a.ts's node, no dead file, no unknown import and
\* one exports entry, for b.ts, exporting x to a.ts.
C6_EndToEnd ==
    (Classified /\ pc # "dead" /\ IsEndToEndScenario)
    => /\ pc = "done"
       /\ Cardinality(nodes) = 2
       /\ Len(edges) = 1
       /\ edges[1].name = "x"
       /\ edges[1].is_default = FALSE
       /\ \E n \in nodes : n.path = <<"b.ts">> /\ n.id = edges[1].source
       /\ \E n \in nodes : n.path = <<"a.ts">> /\ n.id = edges[1].target
       /\ dead_files = {}
       /\ unknown_imports = {}
       /\ exports = {[source |-> <<"b.ts">>,
                      exports |-> << [name |-> "x", target |-> <<"a.ts">>,
                                      is_default |-> FALSE] >>]}

\* No import of another file resolves to the file's key, nor to its directory
\* when it is an index file
NotImported(i) ==
    \A j \in FileIndexes \ {i} :
       /\ files[i].path \notin ImportKeysOf(files[j])
       /\ FileStemOf(files[i].path) = "index"
          => DirOf(files[i].path) \notin ImportKeysOf(files[j])

\* C7 as stated, for files outside every declared dependency name: a parsed file
\* (on disk) that no other file imports is listed in dead_files, whether or not
\* it has imports of its own.
C7_DeadFilesAsStated ==
    Classified => \A i \in FileIndexes :
        (NotImported(i) /\ ~ HasDepPrefix(files[i].path, dependencies))
        => files[i].path \in dead_files

\* C7 as amended: a parsed file that no other file imports, that has no import
\* of its own, and none of whose leading path prefixes is a declared dependency
\* name, is listed in dead_files.
C7_DeadFiles ==
    Classified => \A i \in FileIndexes :
        (/\ NotImported(i)
         /\ files[i].imports = <<>>
         /\ ~ HasDepPrefix(files[i].path, dependencies))
        => files[i].path \in dead_files

\* an unimported file without imports is reported next to connected files
C7_Witness ==
    /\ pc = "dead"
    /\ edges # <<>>
    /\ \E i \in FileIndexes :
          /\ NotImported(i)
          /\ files[i].imports = <<>>
          /\ ~ HasDepPrefix(files[i].path, dependencies)
          /\ files[i].path \in dead_files

\* C8: an import that resolves to a key with no file on disk and no declared
\* dependency prefix is listed in unknown_imports.
C8_UnknownImports ==
    Classified => \A key \in ImportKeys :
        (key \notin disk /\ ~ HasDepPrefix(key, dependencies))
        => key \in unknown_imports

-----------------------------------------------------------------------------
(* extract_dead_files on arbitrary graphs, dependency sets and disks *)

MaxDeadNodes == 4    \* nodes of a graph handed to extract_dead_files
MaxDeadEdges == 1    \* edges of such a graph

\* Nodes a graph may hold: id, key and extension (the other fields are not read)
DeadNodePool ==
    { [id |-> 0, path |-> <<"a.ts">>, file_name |-> Some("a"),
       extension |-> Some("ts"), line_count |-> Some(1)],
      [id |-> 1, path |-> <<"b">>, file_name |-> None,
       extension |-> None, line_count |-> None],
      [id |-> 2, path |-> <<"lodash", "debounce">>, file_name |-> None,
       extension |-> None, line_count |-> None],
      [id |-> 3, path |-> <<"Foo", "index.ts">>, file_name |-> Some("index.ts"),
       extension |-> Some("ts"), line_count |-> Some(1)],
      [id |-> 4, path |-> <<"missing">>, file_name |-> None,
       extension |-> None, line_count |-> None] }

\* Edges a graph may hold: any node id as source, a parsed file's id as target
DeadEdgePool ==
    { [id |-> 0, source |-> s, target |-> t, is_default |-> FALSE, name |-> "x"] :
        s \in 0..4, t \in {0, 3} }

\* Paths that may exist below the root
DeadDiskPaths == {<<"a.ts">>, <<"b">>, <<"Foo", "index.ts">>}

InitDead ==
    /\ pc = "classify"
    /\ nodes \in {ns \in SUBSET DeadNodePool : Cardinality(ns) <= MaxDeadNodes}
    /\ edges \in SeqsUpTo(DeadEdgePool, MaxDeadEdges)
    /\ dependencies \in SUBSET DepNames
    /\ disk \in SUBSET DeadDiskPaths
    /\ files = <<>>
    /\ node_map = <<>>
    /\ node_count = 0
    /\ edge_count = 0
    /\ dead_files = {}
    /\ unknown_imports = {}
    /\ exports = {}
    /\ ts_configs = <<>>
    /\ cpath = <<>>
    /\ closest = None
    /\ NoAliasCall /\ NoPackageJsonCall /\ NoDistanceCall /\ NoNormalizeCall /\ NoScan

\* src/extract.rs:101-140  one call of extract_dead_files
ClassifyNodes ==
    /\ pc = "classify"
    /\ LET r == extract_dead_files(nodes, edges, dependencies, disk) IN
          /\ dead_files' = r.dead_files
          /\ unknown_imports' = r.unknown_imports
    /\ pc' = "classified"
    /\ UNCHANGED <<nodes, edges, dependencies, disk, exports>>
    /\ UNCHANGED builderVars
    /\ UNCHANGED closestVars
    /\ UNCHANGED <<aliasVars, pkgVars, distVars, normVars, scanVars>>

NextDead == ClassifyNodes

SpecDead == InitDead /\ [][NextDead]_vars

IsConnected(n) ==
    \E i \in 1..Len(edges) : edges[i].source = n.id \/ edges[i].target = n.id
IsExternal(n) == ~ IsConnected(n) /\ HasDepPrefix(n.path, dependencies)
IsDead(n) ==
    /\ ~ IsConnected(n)
    /\ ~ HasDepPrefix(n.path, dependencies)
    /\ WithExtension(n.path, IF n.extension = None THEN "" ELSE n.extension[1]) \in disk
IsUnknown(n) ==
    /\ ~ IsConnected(n)
    /\ ~ HasDepPrefix(n.path, dependencies)
    /\ WithExtension(n.path, IF n.extension = None THEN "" ELSE n.extension[1]) \notin disk

ClassCount(n) ==
    (IF IsConnected(n) THEN 1 ELSE 0) + (IF IsExternal(n) THEN 1 ELSE 0)
    + (IF IsDead(n) THEN 1 ELSE 0) + (IF IsUnknown(n) THEN 1 ELSE 0)

\* C9: every node is in exactly one of the classes connected, external
\* dependency, dead, unknown; dead_files holds exactly the dead nodes' paths,
\* unknown_imports exactly the unknown nodes' paths, and connected and external
\* nodes are in neither list.
C9_Classification ==
    pc = "classified" =>
        /\ \A n \in nodes : ClassCount(n) = 1
        /\ dead_files = {n.path : n \in {m \in nodes : IsDead(m)}}
        /\ unknown_imports = {n.path : n \in {m \in nodes : IsUnknown(m)}}
        /\ \A n \in nodes :
              (IsConnected(n) \/ IsExternal(n))
              => (n.path \notin dead_files /\ n.path \notin unknown_imports)

\* a classified graph that holds a node of each of the four classes
C9_Witness ==
    /\ pc = "classified"
    /\ \E n \in nodes : IsConnected(n)
    /\ \E n \in nodes : IsExternal(n)
    /\ dead_files # {}
    /\ unknown_imports # {}

-----------------------------------------------------------------------------
(* get_closest on arbitrary lists of configs *)

MaxConfigs == 3      \* tsconfig.json files of a run

\* src/ts_config.rs:22-45  a parsed tsconfig.json of the directory dir, without compilerOptions
TsConfigAt(dir) ==
    [compiler_options |-> None, file_path |-> Some(Append(dir, "tsconfig.json"))]

\* Directories of the tree that may hold a tsconfig.json
ConfigDirs == {<<>>, <<"pkgA">>, <<"pkgA", "src">>, <<"pkgB">>}

\* Files whose config is looked up
ClosestPaths ==
    {<<"x.ts">>, <<"pkgA", "z.ts">>, <<"pkgA", "src", "x.ts">>, <<"pkgB", "y.ts">>,
     <<"pkgC", "w.ts">>}

InitClosest ==
    /\ pc = "closest_call"
    /\ ts_configs \in DistinctSeqs({TsConfigAt(d) : d \in ConfigDirs}, MaxConfigs)
    /\ cpath \in ClosestPaths
    /\ closest = None
    /\ files = <<>>
    /\ node_map = <<>>
    /\ node_count = 0
    /\ edge_count = 0
    /\ edges = <<>>
    /\ nodes = {}
    /\ dependencies = {}
    /\ dead_files = {}
    /\ unknown_imports = {}
    /\ exports = {}
    /\ disk = {}
    /\ NoAliasCall /\ NoPackageJsonCall /\ NoDistanceCall /\ NoNormalizeCall /\ NoScan

\* src/ts_config.rs:55-80  one call of get_closest
GetClosest ==
    /\ pc = "closest_call"
    /\ closest' = get_closest(ts_configs, cpath)
    /\ pc' = "closest_ret"
    /\ UNCHANGED <<ts_configs, cpath, edges, nodes, dependencies, dead_files,
                   unknown_imports, exports, disk>>
    /\ UNCHANGED builderVars
    /\ UNCHANGED <<aliasVars, pkgVars, distVars, normVars, scanVars>>

NextClosest == GetClosest

SpecClosest == InitClosest /\ [][NextClosest]_vars

\* Indexes of the configs whose directory is a component-wise prefix of the path
Enclosing == {i \in 1..Len(ts_configs) : IsPrefixOf(ConfigDir(ts_configs[i]), cpath)}

\* C10: get_closest returns None exactly when no config directory encloses the
\* path, otherwise the config with the deepest enclosing directory, whatever the
\* order of the configs in the list.
C10_ClosestConfig ==
    pc = "closest_ret" =>
        /\ closest = None <=> Enclosing = {}
        /\ closest # None =>
              \E i \in Enclosing :
                 /\ closest = Some(ts_configs[i])
                 /\ \A j \in Enclosing :
                       Len(ConfigDir(ts_configs[j])) <= Len(ConfigDir(ts_configs[i]))
        /\ \A q \in PermutationsOf(ts_configs) : get_closest(q, cpath) = closest

\* the root config comes first and the nested pkgA config is returned
C10_Witness ==
    /\ pc = "closest_ret"
    /\ cpath = <<"pkgA", "src", "x.ts">>
    /\ Len(ts_configs) >= 2
    /\ ts_configs[1] = TsConfigAt(<<>>)
    /\ closest = Some(TsConfigAt(<<"pkgA">>))

-----------------------------------------------------------------------------
(* normalize_path on arbitrary relative paths *)

MaxNormLen == 5      \* '/'-separated segments of a path handed to normalize_path

\* Segments a relative path may hold (the empty segment comes from "a//b")
NormSegments == {CurDir, ParentDir, "a", "b", "c", ""}

InitNormalize ==
    /\ pc = "normalize_call"
    /\ norm_path \in SeqsUpTo(NormSegments, MaxNormLen)
    /\ norm_ret = None
    /\ dependencies = {}
    /\ NoBuilderRun /\ NoClosestCall /\ NoAliasCall /\ NoPackageJsonCall
    /\ NoDistanceCall /\ NoScan

\* src/extract.rs:74-99  one call of normalize_path
Normalize ==
    /\ pc = "normalize_call"
    /\ norm_ret' = Some(normalize_path(norm_path))
    /\ pc' = "normalize_ret"
    /\ UNCHANGED <<norm_path, edges, nodes, dependencies, dead_files,
                   unknown_imports, exports, disk>>
    /\ UNCHANGED <<builderVars, closestVars, aliasVars, pkgVars, distVars, scanVars>>

NextNormalize == Normalize

SpecNormalize == InitNormalize /\ [][NextNormalize]_vars

\* C16: normalize_path is idempotent, its result holds no "." and no ".."
\* component, and "a/./b/../c" normalizes to the same path as "a/c".
C16_NormalizeIdempotent ==
    pc = "normalize_ret" =>
        /\ normalize_path(norm_ret[1]) = norm_ret[1]
        /\ \A i \in 1..Len(norm_ret[1]) : norm_ret[1][i] \notin {CurDir, ParentDir}
        /\ norm_path = <<"a", CurDir, "b", ParentDir, "c">>
              => norm_ret = Some(normalize_path(<<"a", "c">>))

\* "a/./b/../c" was normalized to a/c
C16_Witness ==
    /\ pc = "normalize_ret"
    /\ norm_path = <<"a", CurDir, "b", ParentDir, "c">>
    /\ norm_ret = Some(<<"a", "c">>)

-----------------------------------------------------------------------------
(* path_distance on pairs of paths that share a root *)

MaxDepth == 2        \* components below the root of a path handed to path_distance

DistNames == {"foo", "bar", "zoo"}

\* The second path of the last assertion of test_path_distance
DeepPath == <<RootDir, "bar", "zoo", "test", "rick", "roll.txt">>

\* Paths below one root: the relative ones, or the absolute ones
DistPaths(root) ==
    {root \o q : q \in SeqsUpTo(DistNames, MaxDepth)}
    \cup (IF root = <<RootDir>> THEN {DeepPath} ELSE {})

InitDistance ==
    /\ pc = "distance_call"
    /\ \E root \in {<<>>, <<RootDir>>} :
          /\ dist_a \in DistPaths(root)
          /\ dist_b \in DistPaths(root)
    /\ distance = None
    /\ call_a = <<>> /\ call_b = <<>> /\ depth = 0
    /\ dependencies = {}
    /\ NoBuilderRun /\ NoClosestCall /\ NoAliasCall /\ NoPackageJsonCall
    /\ NoNormalizeCall /\ NoScan

\* src/path_utils.rs:4-20  one call of path_distance
PathDistance ==
    /\ pc = "distance_call"
    /\ distance' = Some(path_distance(dist_a, dist_b))
    /\ pc' = "distance_ret"
    /\ UNCHANGED <<dist_a, dist_b, call_a, call_b, depth, edges, nodes, dependencies,
                   dead_files, unknown_imports, exports, disk>>
    /\ UNCHANGED <<builderVars, closestVars, aliasVars, pkgVars, normVars, scanVars>>

NextDistance == PathDistance

SpecDistance == InitDistance /\ [][NextDistance]_vars

\* Number of leading components two paths have in common
CommonPrefixLen(p, q) ==
    CHOOSE k \in 0..Len(p) :
        /\ k <= Len(q)
        /\ SubSeq(p, 1, k) = SubSeq(q, 1, k)
        /\ \A j \in (k + 1)..Len(p) : j > Len(q) \/ SubSeq(p, 1, j) # SubSeq(q, 1, j)

\* C15: for paths that share a root the distance is 0 iff the paths are equal,
\* it is the number of components of a beyond the longest common prefix plus
\* that of b, it is 6 for /foo and /bar/zoo/test/rick/roll.txt, and it is the
\* same with the arguments swapped.
C15_PathDistance ==
    pc = "distance_ret" =>
        LET k == CommonPrefixLen(dist_a, dist_b) IN
        /\ distance[1] = 0 <=> dist_a = dist_b
        /\ distance[1] = (Len(dist_a) - k) + (Len(dist_b) - k)
        /\ (dist_a = <<RootDir, "foo">> /\ dist_b = DeepPath) => distance[1] = 6
        /\ path_distance(dist_b, dist_a) = distance[1]

\* the deep pair of the unit test was measured
C15_Witness ==
    /\ pc = "distance_ret"
    /\ dist_a = <<RootDir, "foo">>
    /\ dist_b = DeepPath
    /\ distance = Some(6)

-----------------------------------------------------------------------------
(* path_distance call by call, on any pair of paths *)

MaxRecursion == 8    \* recursive calls followed before the model stops descending

\* Relative and absolute paths of up to MaxDepth components below their root
AnyDistPaths ==
    {root \o q : root \in {<<>>, <<RootDir>>}, q \in SeqsUpTo(DistNames, MaxDepth)}

\* src/path_utils.rs:14-19  the arguments of the recursive call made for (a, b)
RecursiveCall(a, b) ==
    IF Len(a) > Len(b) THEN <<PathPop(a), b>> ELSE <<a, PathPop(b)>>

DistanceFrame ==
    /\ UNCHANGED <<edges, nodes, dependencies, dead_files, unknown_imports, exports, disk>>
    /\ UNCHANGED <<builderVars, closestVars, aliasVars, pkgVars, normVars, scanVars>>

InitDistanceCalls ==
    /\ pc = "distance_call"
    /\ dist_a \in AnyDistPaths
    /\ dist_b \in AnyDistPaths
    /\ call_a = dist_a
    /\ call_b = dist_b
    /\ depth = 0
    /\ distance = None
    /\ dependencies = {}
    /\ NoBuilderRun /\ NoClosestCall /\ NoAliasCall /\ NoPackageJsonCall
    /\ NoNormalizeCall /\ NoScan

\* src/path_utils.rs:14-19  the arguments differ: one is popped and the function calls itself
DistanceRecurse ==
    /\ pc = "distance_call"
    /\ call_a # call_b
    /\ depth < MaxRecursion
    /\ call_a' = RecursiveCall(call_a, call_b)[1]
    /\ call_b' = RecursiveCall(call_a, call_b)[2]
    /\ depth' = depth + 1
    /\ UNCHANGED <<pc, dist_a, dist_b, distance>>
    /\ DistanceFrame

\* src/path_utils.rs:9-11  the arguments are equal: 0 is returned and every caller adds 1
DistanceReturn ==
    /\ pc = "distance_call"
    /\ call_a = call_b
    /\ distance' = Some(depth)
    /\ pc' = "distance_ret"
    /\ UNCHANGED <<dist_a, dist_b, call_a, call_b, depth>>
    /\ DistanceFrame

NextDistanceCalls == DistanceRecurse \/ DistanceReturn

SpecDistanceCalls == InitDistanceCalls /\ [][NextDistanceCalls]_vars

\* C29: path_distance terminates for every pair of paths, absolute or relative
\* in any combination: every recursive call is made with other arguments than
\* the call that makes it, and there are at most (components of a) +
\* (components of b) recursive calls.
C29_Termination ==
    /\ depth <= Len(dist_a) + Len(dist_b)
    /\ (pc = "distance_call" /\ call_a # call_b) =>
           RecursiveCall(call_a, call_b) # <<call_a, call_b>>

-----------------------------------------------------------------------------
(* Import keys under tsconfig.json files: one import resolved on its own *)

\* src/ts_config.rs:22-45  a parsed tsconfig.json of the directory dir with compilerOptions
AliasConfig(dir, base_url, paths) ==
    [compiler_options |-> Some([base_url |-> base_url, paths |-> paths]),
     file_path |-> Some(Append(dir, "tsconfig.json"))]

\* The tsconfig.json files the tree may hold, one per directory
AliasConfigs ==
    { AliasConfig(<<>>, Some(<<"src">>),
                  Some(<<"@app", "*">> :> << <<"app", "*">> >>)),
      AliasConfig(<<"pkgA">>, None,
                  Some(<<"app", "*">> :> << <<"lib", "*">> >>)),
      AliasConfig(<<"pkgA", "src">>, Some(<<".">>), None),
      AliasConfig(<<"pkgB">>, Some(<<".">>),
                  Some((<<"@app", "*">> :> << <<"app", "*">> >>)
                       @@ (<<"lib", "*">> :> << <<"vendor", "*">> >>))),
      TsConfigAt(<<"pkgC">>),
      AliasConfig(<<"pkgD">>, Some(<<"..">>),
                  Some((<<"app", "*">> :> << <<"lib", "*">> >>)
                       @@ (<<"app", "x">> :> << <<"special">> >>)
                       @@ (<<"lib", "*">> :> << <<"vendor", "*">> >>))),
      AliasConfig(<<"pkgE">>, None,
                  Some(<<"@raw", "*">> :> << <<"raw">> >>)),
      AliasConfig(<<"pkgF">>, None,
                  Some(<<"@gen">> :> << <<"gen", "*">> >>)) }

\* Files whose imports are resolved
AliasFiles ==
    {<<"x.ts">>, <<"pkgA", "z.ts">>, <<"pkgA", "src", "x.ts">>, <<"pkgB", "y.ts">>,
     <<"pkgC", "w.ts">>, <<"pkgD", "v.ts">>, <<"pkgE", "u.ts">>, <<"pkgF", "t.ts">>}

\* Specifiers of the imports
AliasSources ==
    {<<"@app", "utils">>, <<"@app", "">>, <<"app", "x">>, <<"app", "webapp", "x">>,
     <<"lib", "x">>, <<"lodash", "">>, <<"lodash", "debounce">>, <<".", "b">>,
     <<"app", "y">>, <<"@gen">>}

InitAlias ==
    /\ pc = "resolve_call"
    /\ ts_configs \in DistinctSeqs(AliasConfigs, MaxConfigs)
    /\ \E f \in AliasFiles, source \in AliasSources :
          res_import = Some(Import(f, [source |-> source, named |-> <<"x">>,
                                       is_default |-> FALSE]))
    /\ res_src = None
    /\ cpath = <<>>
    /\ closest = None
    /\ dependencies = {}
    /\ NoBuilderRun /\ NoPackageJsonCall /\ NoDistanceCall /\ NoNormalizeCall /\ NoScan

\* src/extract.rs:151-153,215-260  the key of one import of one file
ResolveImport ==
    /\ pc = "resolve_call"
    /\ \E order \in AliasOrders(ts_configs, res_import[1].file_path) :
          LET res == ResolveSourceIn(res_import[1], ts_configs, order) IN
          IF res.panicked
          THEN pc' = "abort" /\ res_src' = None
          ELSE pc' = "resolve_ret" /\ res_src' = Some(res.src)
    /\ UNCHANGED <<res_import, edges, nodes, dependencies, dead_files,
                   unknown_imports, exports, disk>>
    /\ UNCHANGED <<builderVars, closestVars, pkgVars, distVars, normVars, scanVars>>

NextAlias == ResolveImport

SpecAlias == InitAlias /\ [][NextAlias]_vars

\* The config with the deepest directory enclosing the importing file, if any
EnclosingConfigs(file_path) ==
    {i \in 1..Len(ts_configs) : IsPrefixOf(Front(ts_configs[i].file_path[1]), file_path)}
ClosestConfigOf(file_path) ==
    IF EnclosingConfigs(file_path) = {} THEN None
    ELSE Some(ts_configs[CHOOSE i \in EnclosingConfigs(file_path) :
                 \A j \in EnclosingConfigs(file_path) :
                    Len(ts_configs[j].file_path[1]) <= Len(ts_configs[i].file_path[1])])

\* The alias table of a config, None when it declares no paths
PathsOf(config) ==
    IF config = None THEN None
    ELSE IF config[1].compiler_options = None THEN None
    ELSE config[1].compiler_options[1].paths

\* A pattern or replacement target without its trailing "*"
DeWildcard(segs) == IF EndsWithStar(Atoms(segs)) THEN Front(Atoms(segs)) ELSE Atoms(segs)

\* The patterns of a table that the specifier starts with
MatchingAliases(paths, source) ==
    {a \in DOMAIN paths : IsPrefixOf(DeWildcard(a), Atoms(source))}

\* configDir / baseUrl? / (replacement ++ rest of the specifier), normalized
SubstitutedKey(config, a, source) ==
    LET co == config.compiler_options[1]
        rest == SubSeq(Atoms(source), Len(DeWildcard(a)) + 1, Len(Atoms(source)))
    IN normalize_path(Front(config.file_path[1])
                      \o (IF co.base_url = None THEN <<>> ELSE co.base_url[1])
                      \o Segments(DeWildcard(co.paths[1][a][1]) \o rest))

ResolvedImport == pc = "resolve_ret" /\ ~ StartsWithDot(res_import[1].source)

\* C11: under a closest config with baseUrl "src" and paths {"@app/*": ["app/*"]}
\* the import '@app/utils' gets the key <config directory>/src/app/utils, and in
\* general one matching alias yields
\* normalize(configDir / baseUrl? / (replacement ++ rest of the specifier)).
C11_AliasResolution ==
    ResolvedImport =>
        LET config == ClosestConfigOf(res_import[1].file_path)
            paths == PathsOf(config)
            source == res_import[1].source
        IN paths # None =>
           /\ (/\ config[1].compiler_options[1].base_url = Some(<<"src">>)
               /\ paths[1] = (<<"@app", "*">> :> << <<"app", "*">> >>)
               /\ source = <<"@app", "utils">>)
              => res_src = Some(Front(config[1].file_path[1]) \o <<"src", "app", "utils">>)
           /\ \A a \in MatchingAliases(paths[1], source) :
                 MatchingAliases(paths[1], source) = {a}
                 => res_src = Some(SubstitutedKey(config[1], a, source))

\* C12 as stated: a non-relative import of a file with no enclosing config, or
\* whose closest config declares no paths, or that no alias of the closest
\* config's table matches, has its specifier unchanged as key, whatever the
\* other configs declare; otherwise the key is the one the import gets when the
\* closest config is the only config there is.
C12_AliasesAsStated ==
    ResolvedImport =>
        LET config == ClosestConfigOf(res_import[1].file_path)
            paths == PathsOf(config)
            source == res_import[1].source
        IN IF paths = None \/ (paths # None /\ MatchingAliases(paths[1], source) = {})
           THEN res_src = Some(source)
           ELSE \E order \in KeyOrders(paths) :
                   res_src = Some(ResolveSourceIn(res_import[1], config, order).src)

\* The specifier without one trailing '/'
WithoutTrailingSlash(source) == IF EndsWithSlash(source) THEN Front(source) ELSE source

\* C12 as amended: in those cases the key is the specifier without its trailing
\* '/', and otherwise the key is the one the import gets when the closest
\* config is the only config there is.
C12_AliasesDoNotCross ==
    ResolvedImport =>
        LET config == ClosestConfigOf(res_import[1].file_path)
            paths == PathsOf(config)
            source == res_import[1].source
        IN IF paths = None \/ (paths # None /\ MatchingAliases(paths[1], source) = {})
           THEN res_src = Some(WithoutTrailingSlash(source))
           ELSE \E order \in KeyOrders(paths) :
                   res_src = Some(ResolveSourceIn(res_import[1], config, order).src)

\* an alias of the root config matches the import of a file whose closest
\* config, in pkgA/src, declares no paths: the specifier is the key
C12_Witness ==
    /\ pc = "resolve_ret"
    /\ res_import[1].file_path = <<"pkgA", "src", "x.ts">>
    /\ res_import[1].source = <<"@app", "utils">>
    /\ \E i, j \in 1..Len(ts_configs) :
          /\ ts_configs[i].file_path = Some(<<"tsconfig.json">>)
          /\ ts_configs[j].file_path = Some(<<"pkgA", "src", "tsconfig.json">>)
    /\ res_src = Some(<<"@app", "utils">>)

\* The alias of an iteration order that is visited last among those matching the specifier
LastMatching(order, paths, source) ==
    order[CHOOSE i \in 1..Len(order) :
             /\ order[i] \in MatchingAliases(paths, source)
             /\ \A j \in (i + 1)..Len(order) : order[j] \notin MatchingAliases(paths, source)]

\* C24: when more than one alias of the closest config matches the specifier,
\* the key is the result of applying only the alias visited last among the
\* matching ones to the original specifier, for every iteration order that
\* yields the key.
C24_LastAliasWins ==
    ResolvedImport =>
        LET config == ClosestConfigOf(res_import[1].file_path)
            paths == PathsOf(config)
            source == res_import[1].source
        IN (paths # None /\ Cardinality(MatchingAliases(paths[1], source)) > 1) =>
           \A order \in KeyOrders(paths) :
               res_src = Some(ResolveSourceIn(res_import[1], config, order).src)
               => res_src = Some(SubstitutedKey(config[1],
                                                LastMatching(order, paths[1], source),
                                                source))

\* C25: when the specifier starts with the de-wildcarded pattern of the only
\* alias of the closest config, exactly that leading occurrence is replaced by
\* the replacement target and the rest of the specifier is carried over
\* unchanged, also when the pattern occurs again later in the specifier.
C25_PrefixOnly ==
    ResolvedImport =>
        LET config == ClosestConfigOf(res_import[1].file_path)
            paths == PathsOf(config)
            source == res_import[1].source
        IN (paths # None /\ Cardinality(DOMAIN paths[1]) = 1) =>
           \A a \in MatchingAliases(paths[1], source) :
               LET rest == SubSeq(Atoms(source), Len(DeWildcard(a)) + 1, Len(Atoms(source)))
                   co == config[1].compiler_options[1]
               IN res_src = Some(normalize_path(
                       Front(config[1].file_path[1])
                       \o (IF co.base_url = None THEN <<>> ELSE co.base_url[1])
                       \o Segments(DeWildcard(paths[1][a][1]) \o rest)))

\* C26: a trailing '*' is removed from the pattern if the pattern has one and
\* from the first replacement target if the target has one, so no key holds a
\* '*' left over from a target; an entry with a '*' on one side only does not
\* abort the construction of the graph.
C26_WildcardStripping ==
    /\ pc # "abort"
    /\ ResolvedImport => \A i \in 1..Len(res_src[1]) : res_src[1][i] # "*"

-----------------------------------------------------------------------------
(* extract over a tree that holds tsconfig.json files *)

\* The configs of the tree: those of pkgA and pkgD, in the order scan found them
RunConfigs == {c \in AliasConfigs : ConfigDir(c) \in {<<"pkgA">>, <<"pkgD">>}}
RunConfigLists ==
    {q \in DistinctSeqs(RunConfigs, Cardinality(RunConfigs)) : q # <<>>}

InitRuns ==
    /\ pc = "loop"
    /\ files = <<>>
    /\ node_map = <<>>
    /\ node_count = 0
    /\ edge_count = 0
    /\ edges = <<>>
    /\ nodes = {}
    /\ dependencies = {}
    /\ dead_files = {}
    /\ unknown_imports = {}
    /\ exports = {}
    /\ disk = {}
    /\ ts_configs \in RunConfigLists
    /\ cpath = <<>>
    /\ closest = None
    /\ NoAliasCall /\ NoPackageJsonCall /\ NoDistanceCall /\ NoNormalizeCall /\ NoScan

SpecRuns == InitRuns /\ [][Next]_vars

\* No import of the files consumed so far is matched by more than one alias
AtMostOneMatch ==
    \A i \in 1..Len(files) : \A j \in 1..Len(files[i].imports) :
        LET paths == PathsOf(ClosestConfigOf(files[i].path)) IN
        \/ StartsWithDot(files[i].imports[j].source)
        \/ paths = None
        \/ Cardinality(MatchingAliases(paths[1], files[i].imports[j].source)) <= 1

\* The ids of the nodes of a node map
IdsOf(nm) == {nm[k].id : k \in DOMAIN nm}

\* C27: the id of an edge is its position in the edges list, counted from 0;
\* every node created gets an id above all ids handed out before; and for a
\* fixed file order with at most one matching alias per specifier every run of
\* extract_import_graph yields the same node ids, node paths and edges.
C27_IdAssignment ==
    /\ [](/\ \A i \in 1..Len(edges) : edges[i].id = i - 1
          /\ (pc = "loop" /\ AtMostOneMatch) =>
                \A ord \in RunOrders(ts_configs) :
                    LET g == extract_import_graph(files, ts_configs, ord) IN
                    g.nm = node_map /\ g.es = edges)
    /\ [][\A id \in IdsOf(node_map') \ IdsOf(node_map) :
              \A old \in IdsOf(node_map) : id > old]_vars

-----------------------------------------------------------------------------
(* extract_package_json: declared dependencies and their usage counters *)

MaxPackageJsons == 2 \* package.json files of a run
MaxPkgImports == 2   \* imports of the first file handed to extract_package_json

\* src/package_json.rs:33-45  (a section is held as the set of its keys)
list_dependencies(package_json) ==
    IF package_json.dependencies # None THEN package_json.dependencies[1] ELSE {}

\* src/extract.rs:379-384  every listed name is inserted with count 0
RECURSIVE SeedUsage(_, _)
SeedUsage(deps, pjs) ==
    IF pjs = <<>> THEN deps
    ELSE SeedUsage([d \in (DOMAIN deps) \cup list_dependencies(Head(pjs)) |-> 0], Tail(pjs))

\* Faulty variant: only a specifier that is a declared name as a whole is counted
CountWholeSpecifier(deps, source, k) ==
    IF source \in DOMAIN deps THEN [deps EXCEPT ![source] = @ + 1] ELSE deps

\* src/extract.rs:393-400  `for s in splits`: package holds the first k segments
RECURSIVE CountPrefix(_, _, _)
CountPrefix(deps, source, k) ==
    IF k > Len(source) THEN deps
    ELSE IF SubSeq(source, 1, k) \in DOMAIN deps
         THEN [deps EXCEPT ![SubSeq(source, 1, k)] = @ + 1]
         ELSE CountPrefix(deps, source, k + 1)

\* src/extract.rs:386-401  one import
CountImport(deps, import) ==
    IF StartsWithDot(import.source) THEN deps
    ELSE CountPrefix(deps, import.source, 1)

\* src/extract.rs:385-402  the imports of the files, in order
RECURSIVE CountImports(_, _)
CountImports(deps, imports) ==
    IF imports = <<>> THEN deps
    ELSE CountImports(CountImport(deps, Head(imports)), Tail(imports))

RECURSIVE CountFiles(_, _)
CountFiles(deps, fs) ==
    IF fs = <<>> THEN deps
    ELSE CountFiles(CountImports(deps, Head(fs).imports), Tail(fs))

\* src/extract.rs:375-404
extract_package_json(fs, pjs) == CountFiles(SeedUsage(<<>>, pjs), fs)

\* src/package_json.rs:8-13,15-31  a parsed package.json
PackageJson(deps, dev, peer) ==
    [dependencies |-> deps, dev_dependencies |-> dev, peer_dependencies |-> peer,
     file_path |-> <<"package.json">>]

\* The package.json files the tree may hold
PackageJsons ==
    { PackageJson(Some({<<"lodash">>, <<"@scope", "pkg">>}), None, None),
      PackageJson(None, Some({<<"jest">>}), Some({<<"react">>})),
      PackageJson(Some({<<"react">>}), Some({<<"lodash">>}), None) }

\* Specifiers of the imports handed to extract_package_json
PkgSources ==
    {<<"lodash">>, <<"lodash", "debounce">>, <<"lodash", "">>, <<"@scope", "pkg", "sub">>,
     <<".", "lodash">>, <<"react">>, <<"jest">>}

PkgImport(p, source) == Import(p, [source |-> source, named |-> <<"x">>, is_default |-> FALSE])

InitPackageJson ==
    /\ pc = "package_json_call"
    /\ package_jsons \in SeqsUpTo(PackageJsons, MaxPackageJsons)
    /\ \E srcs \in SeqsUpTo(PkgSources, MaxPkgImports),
          more \in {<<>>, <<PkgImport(<<"b.ts">>, <<"lodash", "debounce">>)>>} :
          files = << ParsedFile(<<"a.ts">>, LineCountOf(<<"a.ts">>),
                                [i \in 1..Len(srcs) |-> PkgImport(<<"a.ts">>, srcs[i])]),
                     ParsedFile(<<"b.ts">>, LineCountOf(<<"b.ts">>), more) >>
    /\ usage = <<>>
    /\ dependencies = {}
    /\ node_map = <<>>
    /\ node_count = 0
    /\ edge_count = 0
    /\ edges = <<>>
    /\ nodes = {}
    /\ dead_files = {}
    /\ unknown_imports = {}
    /\ exports = {}
    /\ disk = {}
    /\ NoClosestCall /\ NoAliasCall /\ NoDistanceCall /\ NoNormalizeCall /\ NoScan

\* src/extract.rs:416-417  extract_package_json, then the names for extract_dead_files
ExtractPackageJson ==
    /\ pc = "package_json_call"
    /\ usage' = extract_package_json(files, package_jsons)
    /\ dependencies' = DOMAIN usage'
    /\ pc' = "package_json_ret"
    /\ UNCHANGED <<package_jsons, edges, nodes, dead_files, unknown_imports, exports, disk>>
    /\ UNCHANGED <<builderVars, closestVars, aliasVars, distVars, normVars, scanVars>>

NextPackageJson == ExtractPackageJson

SpecPackageJson == InitPackageJson /\ [][NextPackageJson]_vars

\* All imports of the files: <<file index, import index>>
ImportPositions == {<<i, k>> \in (1..Len(files)) \X (1..MaxPkgImports + 1) :
                       k <= Len(files[i].imports)}

\* The shortest prefix of a specifier that has a counter, if there is one
HasCountedPrefix(source) == \E k \in 1..Len(source) : SubSeq(source, 1, k) \in DOMAIN usage
ShortestCountedPrefix(source) ==
    SubSeq(source, 1, CHOOSE k \in 1..Len(source) :
                         /\ SubSeq(source, 1, k) \in DOMAIN usage
                         /\ \A j \in 1..(k - 1) : SubSeq(source, 1, j) \notin DOMAIN usage)

SectionNames(section) == IF section = None THEN {} ELSE section[1]

\* C14: the usage map, and the set handed to the dead-file detector, hold every
\* name under dependencies, devDependencies and peerDependencies of every
\* loaded package.json.
C14_DeclaredDependencySet ==
    pc = "package_json_ret" =>
        LET declared == UNION {SectionNames(package_jsons[i].dependencies)
                               \cup SectionNames(package_jsons[i].dev_dependencies)
                               \cup SectionNames(package_jsons[i].peer_dependencies) :
                               i \in 1..Len(package_jsons)}
        IN /\ DOMAIN usage = declared
           /\ dependencies = declared

-----------------------------------------------------------------------------
(* Properties of edge emission, export aggregation and node completion *)

\* Number of edges an import calls for
BindingCount(import) == Len(import.named) + (IF import.is_default THEN 1 ELSE 0)

RECURSIVE BindingTotal(_)
BindingTotal(imports) ==
    IF imports = <<>> THEN 0 ELSE BindingCount(Head(imports)) + BindingTotal(Tail(imports))

RECURSIVE BindingTotalOfFiles(_)
BindingTotalOfFiles(fs) ==
    IF fs = <<>> THEN 0 ELSE BindingTotal(Head(fs).imports) + BindingTotalOfFiles(Tail(fs))

\* A step that processes one more import of the current file
ImportStep == pc = "loop" /\ Len(files') = Len(files) /\ files' # files

\* C17: processing an import appends exactly one edge per named binding, named
\* after it, and, iff the import has a default binding, one more edge with
\* empty name and is_default = TRUE; each of them goes from the node of the
\* resolved key to the node of the importing file; and the number of edges is
\* the sum over all imports of |named| + (1 if default).
C17_EdgeEmission ==
    /\ [](Len(edges) = BindingTotalOfFiles(files))
    /\ [][ImportStep =>
            LET file == Last(files')
                import == Last(file.imports)
                n == Len(import.named)
                new == SubSeq(edges', Len(edges) + 1, Len(edges'))
            IN /\ SubSeq(edges', 1, Len(edges)) = edges
               /\ Len(new) = n + (IF import.is_default THEN 1 ELSE 0)
               /\ \A i \in 1..n : new[i].name = import.named[i]
               /\ import.is_default => (new[n + 1].name = "" /\ new[n + 1].is_default)
               /\ \A i \in 1..Len(new) :
                     /\ ResolveSource(import) \in DOMAIN node_map'
                     /\ new[i].source = node_map'[ResolveSource(import)].id
                     /\ new[i].target = node_map'[file.path].id]_vars

\* an import with a named and a default binding got its two edges
C17_Witness ==
    /\ pc = "loop"
    /\ \E i, j \in 1..Len(edges) :
          /\ edges[i].name = "y"
          /\ edges[j].name = "" /\ edges[j].is_default
          /\ edges[i].source = edges[j].source
          /\ edges[i].target = edges[j].target

\* The ids that are the source of some edge
EdgeSources == {edges[i].source : i \in 1..Len(edges)}

RECURSIVE ExportTotal(_)
ExportTotal(entries) ==
    IF entries = {} THEN 0
    ELSE LET e == CHOOSE x \in entries : TRUE
         IN Len(e.exports) + ExportTotal(entries \ {e})

\* C18: extract_exports completes on every graph of extract_import_graph and
\* returns one entry per node id that is the source of an edge, none for other
\* nodes, the exports of an entry matching the edges of that source one to one;
\* so there are as many export records as edges.
C18_ExportAggregation ==
    pc \in {"done", "panic"} =>
        /\ pc = "done"
        /\ Cardinality(exports) = Cardinality(EdgeSources)
        /\ \A s \in EdgeSources :
              \E n \in nodes, e \in exports :
                 /\ n.id = s
                 /\ e.source = n.path
                 /\ LET mine == SelectSeq(edges, LAMBDA x : x.source = s) IN
                    /\ Len(e.exports) = Len(mine)
                    /\ \A i \in 1..Len(mine) :
                          /\ e.exports[i].name = mine[i].name
                          /\ e.exports[i].is_default = mine[i].is_default
                          /\ \E t \in nodes : t.id = mine[i].target
                                                /\ e.exports[i].target = t.path
        /\ \A e \in exports : \E n \in nodes : n.path = e.source /\ n.id \in EdgeSources
        /\ ExportTotal(exports) = Len(edges)

\* A step that registers a parsed file whose path is already a node key
CompletionStep ==
    /\ pc = "loop"
    /\ Len(files') = Len(files) + 1
    /\ Last(files').path \in DOMAIN node_map

\* C19: when a file is parsed whose path is already a node key, the node keeps
\* its id and path, each of file_name, extension and line_count that is None
\* is filled from the parsed file, and each that is set stays as it is.
C19_PlaceholderCompletion ==
    [][CompletionStep =>
         LET file == Last(files')
             old == node_map[file.path]
             now == node_map'[file.path]
         IN /\ now.id = old.id
            /\ now.path = old.path
            /\ now.file_name = (IF old.file_name = None THEN Some(file.name)
                                ELSE old.file_name)
            /\ now.extension = (IF old.extension = None THEN Some(file.extension)
                                ELSE old.extension)
            /\ now.line_count = (IF old.line_count = None THEN Some(file.line_count)
                                 ELSE old.line_count)]_vars

\* C30: an edge has is_default = TRUE only if it is the default-binding edge of
\* its import, the edge with the empty name; every edge of a named binding has
\* is_default = FALSE, also when the import carries a default binding as well.
C30_DefaultFlag ==
    \A i \in 1..Len(edges) : edges[i].is_default => edges[i].name = ""

\* The nodes of a graph without their ids
NodeContent(ns) ==
    {[path |-> n.path, file_name |-> n.file_name, extension |-> n.extension,
      line_count |-> n.line_count] : n \in ns}

\* An edge viewed as (source path, target path, name, is_default)
EdgeView(ns, e) ==
    [source |-> {n.path : n \in {m \in ns : m.id = e.source}},
     target |-> {n.path : n \in {m \in ns : m.id = e.target}},
     name |-> e.name, is_default |-> e.is_default]

\* The multiset of the edges of a graph in that view: view |-> number of edges
EdgeContent(ns, es) ==
    [v \in {EdgeView(ns, es[i]) : i \in 1..Len(es)} |->
        Cardinality({i \in 1..Len(es) : EdgeView(ns, es[i]) = v})]

\* C28: every permutation of the file list yields the same graph up to renaming
\* of ids: the same node paths with the same metadata, the same multiset of
\* edges viewed as (source path, target path, name, is_default), and hence the
\* same dead_files and unknown_imports.
C28_OrderIndependence ==
    pc \in {"dead", "done", "panic"} =>
        \A q \in PermutationsOf(files) :
            LET g == extract_import_graph(q, ts_configs, <<>>)
                ns == MapValues(g.nm)
                r == extract_dead_files(ns, g.es, dependencies, disk)
            IN /\ NodeContent(ns) = NodeContent(nodes)
               /\ EdgeContent(ns, g.es) = EdgeContent(nodes, edges)
               /\ r.dead_files = dead_files
               /\ r.unknown_imports = unknown_imports

-----------------------------------------------------------------------------
(* scan: config loading, the thread pool, the channel and the collecting loop *)

MaxScanFiles == 3    \* files found by find_files
MaxWorkers == 2      \* threads of the pool (n_workers; 64 in the source)

\* Paths find_files may return
ScanPaths ==
    {<<"a.ts">>, <<"b.ts">>, <<"Foo", "index.ts">>, <<"gone.ts">>,
     <<"style.css">>, <<"Makefile">>}

\* Paths that can no longer be read when they are parsed
Unreadable == {<<"gone.ts">>}
Readable(p) == p \notin Unreadable

\* Result<_, Error> of a parser, or the panic that ends the calling thread
Ok(v) == [kind |-> "Ok", value |-> <<v>>]
Err == [kind |-> "Err", value |-> <<>>]
Panic == [kind |-> "panic", value |-> <<>>]

\* src/languages/javascript.rs:234-254  JavaScript::parse_file (TypeScript::parse_file
\* calls it): read_to_string(..).expect(..) panics on a file that cannot be read
JavaScript_parse_file(p) ==
    IF Readable(p) THEN Ok(ParsedFile(p, LineCountOf(p), <<>>)) ELSE Panic

\* src/languages/unknown.rs:13-26  Unknown::parse_file: File::open(path)? returns the
\* error; path.extension().unwrap() panics on a path without extension
Unknown_parse_file(p) ==
    IF ~ Readable(p) THEN Err
    ELSE IF Ext(Last(p)) = "" THEN Panic
    ELSE Ok([ParsedFile(p, LineCountOf(p), <<>>) EXCEPT !.name = Last(p)])

\* src/languages/mod.rs:57-68  dispatch on path.extension()
parse_file(p) ==
    CASE Ext(Last(p)) = "" -> Unknown_parse_file(p)
      [] Ext(Last(p)) \in {"js", "jsx", "ts", "tsx"} -> JavaScript_parse_file(p)
      [] OTHER -> Panic

\* src/languages/javascript.rs:255-270  JavaScript::parse_test_file: File::open(path)?
JavaScript_parse_test_file(p) ==
    IF Readable(p) THEN Ok([path |-> p, name |-> get_file_name(p)]) ELSE Err

\* src/languages/mod.rs:69-80  dispatch of the test-file parser
parse_test_file(p) ==
    CASE Ext(Last(p)) = "" -> Panic
      [] Ext(Last(p)) \in {"js", "jsx", "ts", "tsx"} -> JavaScript_parse_test_file(p)
      [] OTHER -> Panic

\* src/scan.rs:93-94  parse_file returns Ok (it panics or returns Err otherwise)
ParseSucceeds(p) == parse_file(p).kind = "Ok"

\* A config file found by find_files: its path and what reading it gives.
\* "typed": JSON that deserializes into PackageJson; "untyped": JSON that does not;
\* "json": any JSON text; "malformed": no JSON; "unreadable": read_to_string fails
ConfigFile(dir, name, content) == [path |-> Append(dir, name), content |-> content]

\* src/scan.rs:29-31,44  f.package_json of the trees considered
PackageJsonsFound ==
    {<<>>}
    \cup {<<ConfigFile(<<>>, "package.json", c)>> :
             c \in {"typed", "untyped", "malformed", "unreadable"}}
    \cup {<<ConfigFile(<<>>, "package.json", c), ConfigFile(<<"pkgA">>, "package.json", d)>> :
             c \in {"typed", "untyped", "malformed", "unreadable"},
             d \in {"typed", "malformed"}}

\* src/scan.rs:32-34,45  f.ts_config of the trees considered
TsConfigsFound ==
    {<<>>}
    \cup {<<ConfigFile(<<>>, "tsconfig.json", c)>> : c \in {"json", "malformed", "unreadable"}}
    \cup {<<ConfigFile(<<>>, "tsconfig.json", c), ConfigFile(<<"pkgA">>, "tsconfig.json", d)>> :
             c \in {"json", "malformed", "unreadable"}, d \in {"json", "unreadable"}}

\* src/package_json.rs:18-21 and src/scan.rs:76-79  fs::read_to_string(..) is Ok
ReadsAsString(f) == f.content # "unreadable"

\* Faulty variant: text that is no JSON is let through
ParsesAsJsonAnyText(f) == TRUE

\* src/scan.rs:80-83  serde_json::from_str::<Value>(..) is Ok
ParsesAsJson(f) == f.content # "malformed"

\* src/package_json.rs:22-26  serde_json::from_str::<PackageJson>(..) is Ok
ParsesAsPackageJson(f) == f.content = "typed"

\* The text and the file of the message of a failed expect()
PanicMessage(f) ==
    [text |-> IF ReadsAsString(f) THEN "JSON was not well-formatted in: "
              ELSE "Unable to read file: ",
     file |-> f.path]

\* Faulty variant: the collecting loop stops one iteration early
LoopDoneEarly(received, submitted) == received + 1 >= submitted

\* src/scan.rs:100  `for _ in threads` has run once per element of threads
LoopDone(received, submitted) == received = submitted

\* scan runs before extract: it touches none of the variables of the other calls
ScanFrame ==
    /\ UNCHANGED <<edges, nodes, dependencies, dead_files, unknown_imports, exports, disk>>
    /\ UNCHANGED <<builderVars, closestVars, aliasVars, pkgVars, distVars, normVars>>

\* src/scan.rs:66-68  find_files has returned
InitScan ==
    /\ pc = "package_json"
    /\ all_files \in DistinctSeqs(ScanPaths, MaxScanFiles)
    /\ found_package_json \in PackageJsonsFound
    /\ found_ts_config \in TsConfigsFound
    /\ parsed_package_jsons = <<>>
    /\ panic_message = None
    /\ threads = 0
    /\ jobs = <<>>
    /\ running = {}
    /\ channel = <<>>
    /\ parsed_files = <<>>
    /\ dependencies = {}
    /\ NoBuilderRun /\ NoClosestCall /\ NoAliasCall /\ NoPackageJsonCall
    /\ NoDistanceCall /\ NoNormalizeCall

\* src/scan.rs:69, src/package_json.rs:17-29  one iteration of `for p_json in package_jsons`
ParsePackageJson ==
    /\ pc = "package_json"
    /\ found_package_json # <<>>
    /\ LET f == Head(found_package_json) IN
       IF ReadsAsString(f) /\ ParsesAsJson(f) /\ ParsesAsPackageJson(f)
       THEN /\ parsed_package_jsons' =
                  Append(parsed_package_jsons,
                         [dependencies |-> None, dev_dependencies |-> None,
                          peer_dependencies |-> None, file_path |-> f.path])
            /\ found_package_json' = Tail(found_package_json)
            /\ UNCHANGED <<pc, panic_message>>
       ELSE /\ pc' = "aborted"
            /\ panic_message' = Some(PanicMessage(f))
            /\ UNCHANGED <<found_package_json, parsed_package_jsons>>
    /\ UNCHANGED <<poolVars, found_ts_config>>
    /\ ScanFrame

\* src/package_json.rs:30, src/scan.rs:72-74  parse returns; the pool and the channel are made
PackageJsonsParsed ==
    /\ pc = "package_json"
    /\ found_package_json = <<>>
    /\ pc' = "ts_config"
    /\ UNCHANGED scanVars
    /\ ScanFrame

\* src/scan.rs:75-84  one iteration of `for t_json in f.ts_config`
CheckTsConfig ==
    /\ pc = "ts_config"
    /\ found_ts_config # <<>>
    /\ LET f == Head(found_ts_config) IN
       IF ReadsAsString(f) /\ ParsesAsJson(f)
       THEN /\ found_ts_config' = Tail(found_ts_config)
            /\ UNCHANGED <<pc, panic_message>>
       ELSE /\ pc' = "aborted"
            /\ panic_message' = Some(PanicMessage(f))
            /\ UNCHANGED found_ts_config
    /\ UNCHANGED <<poolVars, found_package_json, parsed_package_jsons>>
    /\ ScanFrame

\* src/scan.rs:84-85  every tsconfig.json was read: the submission of the files starts
TsConfigsChecked ==
    /\ pc = "ts_config"
    /\ found_ts_config = <<>>
    /\ pc' = "submit"
    /\ UNCHANGED scanVars
    /\ ScanFrame

\* src/scan.rs:85-99  the next path is handed to pool.execute
Submit ==
    /\ pc = "submit"
    /\ threads < Len(all_files)
    /\ jobs' = Append(jobs, all_files[threads + 1])
    /\ threads' = threads + 1
    /\ UNCHANGED <<pc, all_files, running, channel, parsed_files, configVars>>
    /\ ScanFrame

\* src/scan.rs:99  collect() ends: every path was submitted
AllSubmitted ==
    /\ pc = "submit"
    /\ threads = Len(all_files)
    /\ pc' = "collect"
    /\ UNCHANGED scanVars
    /\ ScanFrame

\* src/scan.rs:91  a free pool thread takes the oldest queued closure
WorkerTake ==
    /\ jobs # <<>>
    /\ Cardinality(running) < MaxWorkers
    /\ running' = running \cup {Head(jobs)}
    /\ jobs' = Tail(jobs)
    /\ UNCHANGED <<pc, all_files, threads, channel, parsed_files, configVars>>
    /\ ScanFrame

\* src/scan.rs:92-96  the closure parses its file and sends the result if it is Ok;
\* on Err it sends nothing, and a panic ends the closure before it sends
WorkerFinish ==
    /\ \E p \in running :
          /\ running' = running \ {p}
          /\ channel' = IF parse_file(p).kind = "Ok"
                        THEN Append(channel, parse_file(p).value[1])
                        ELSE channel
    /\ UNCHANGED <<pc, all_files, threads, jobs, parsed_files, configVars>>
    /\ ScanFrame

\* src/scan.rs:100-103  rx.recv() returns the oldest message, blocking while there is
\* none (scan holds tx itself, so the channel never reports that it is closed)
Recv ==
    /\ pc = "collect"
    /\ ~ LoopDone(Len(parsed_files), threads)
    /\ channel # <<>>
    /\ parsed_files' = Append(parsed_files, Head(channel))
    /\ channel' = Tail(channel)
    /\ UNCHANGED <<pc, all_files, threads, jobs, running, configVars>>
    /\ ScanFrame

\* src/scan.rs:104-106  the loop is over, scan returns parsed_files
ReturnFiles ==
    /\ pc = "collect"
    /\ LoopDone(Len(parsed_files), threads)
    /\ pc' = "returned"
    /\ UNCHANGED scanVars
    /\ ScanFrame

NextScan ==
    \/ ParsePackageJson \/ PackageJsonsParsed \/ CheckTsConfig \/ TsConfigsChecked
    \/ Submit \/ AllSubmitted \/ WorkerTake \/ WorkerFinish \/ Recv \/ ReturnFiles

SpecScan == InitScan /\ [][NextScan]_vars

\* scan under its scheduling: the coordinator thread keeps running while it has a
\* step to take, and the pool starts every queued closure and runs it to its end
SpecScanFair ==
    /\ InitScan /\ [][NextScan]_vars
    /\ WF_vars(ParsePackageJson) /\ WF_vars(PackageJsonsParsed)
    /\ WF_vars(CheckTsConfig) /\ WF_vars(TsConfigsChecked)
    /\ WF_vars(Submit) /\ WF_vars(AllSubmitted)
    /\ WF_vars(WorkerTake) /\ WF_vars(WorkerFinish)
    /\ WF_vars(Recv) /\ WF_vars(ReturnFiles)

\* Every extraction of the run succeeds
AllSucceed == \A i \in 1..Len(all_files) : ParseSucceeds(all_files[i])

\* The paths of the files received so far and of those still in the channel
ReceivedPaths == [i \in 1..Len(parsed_files) |-> parsed_files[i].path]
InFlightPaths == [i \in 1..Len(channel) |-> channel[i].path]

\* C20: when every extraction succeeds, no file is received twice or without
\* having been submitted, and when scan returns, exactly one ParsedFile per
\* submitted file has been received, in some permutation of the submission
\* order, with nothing left queued, running or in the channel.
C20_RendezvousCollection ==
    AllSucceed =>
        /\ LET got == ReceivedPaths \o InFlightPaths IN
           /\ \A i, j \in 1..Len(got) : i # j => got[i] # got[j]
           /\ \A i \in 1..Len(got) : \E k \in 1..threads : all_files[k] = got[i]
        /\ pc = "returned" =>
              /\ Len(parsed_files) = Len(all_files)
              /\ \A k \in 1..Len(all_files) :
                    Cardinality({i \in 1..Len(parsed_files) :
                                    parsed_files[i].path = all_files[k]}) = 1
              /\ jobs = <<>> /\ running = {} /\ channel = <<>>

\* scan returned three files in another order than they were submitted
C20_Witness ==
    /\ pc = "returned"
    /\ AllSucceed
    /\ Len(all_files) = 3
    /\ parsed_files[1].path = all_files[2]
    /\ parsed_files[3].path = all_files[1]

\* The submitted paths whose closure has run to its end
Finished ==
    {all_files[k] : k \in 1..threads} \ (running \cup {jobs[i] : i \in 1..Len(jobs)})

\* The ParsedFiles sent so far
Sent == {channel[i] : i \in 1..Len(channel)} \cup {parsed_files[i] : i \in 1..Len(parsed_files)}

RecognizedExtensions == {"js", "jsx", "ts", "tsx"}

\* C23: when parse_file is dispatched on a readable path whose extension is none
\* of js, jsx, ts, tsx, the unknown-language handler returns a ParsedFile with
\* no imports and the line count of the file, which the closure sends; the
\* test-file parser panics on such a path.
C23_UnknownExtension ==
    \A p \in Finished :
        (Ext(Last(p)) \notin RecognizedExtensions /\ Readable(p)) =>
            /\ \E f \in Sent :
                  f.path = p /\ f.imports = <<>> /\ f.line_count = LineCountOf(p)
            /\ parse_test_file(p).kind = "panic"

\* A config file that cannot be read or holds no JSON
Malformed(f) == f.content \in {"unreadable", "malformed"}

\* The config files not yet loaded, in loading order
ConfigsToLoad == found_package_json \o found_ts_config

\* A source file was handed to the pool
SomeSubmitted ==
    threads > 0 \/ jobs # <<>> \/ running # {} \/ channel # <<>> \/ parsed_files # <<>>

\* The step that loads the next config file finds it malformed
LoadsMalformed ==
    \/ pc = "package_json" /\ found_package_json # <<>> /\ Malformed(Head(found_package_json))
    \/ pc = "ts_config" /\ found_ts_config # <<>> /\ Malformed(Head(found_ts_config))

\* C22: a package.json or tsconfig.json that cannot be read or is not valid JSON
\* aborts the run with a message naming that file; while such a file is still to
\* be loaded, and after the abort, no source file has been submitted and nothing
\* is returned; no file is submitted before every config file has been loaded.
C22_ConfigFirst ==
    /\ [](/\ (\E i \in 1..Len(ConfigsToLoad) : Malformed(ConfigsToLoad[i])) =>
                ~ SomeSubmitted /\ pc \in {"package_json", "ts_config", "aborted"}
          /\ pc = "aborted" => ~ SomeSubmitted /\ panic_message # None
          /\ SomeSubmitted => ConfigsToLoad = <<>> /\ panic_message = None)
    /\ [][LoadsMalformed =>
             /\ pc' = "aborted"
             /\ panic_message'[1].file = Head(IF pc = "package_json" THEN found_package_json
                                              ELSE found_ts_config).path
             /\ UNCHANGED poolVars]_vars

\* the second package.json is malformed: the first was parsed, the run aborted
\* naming the second, with three source files and a tsconfig.json still waiting
C22_Witness ==
    /\ pc = "aborted"
    /\ Len(parsed_package_jsons) = 1
    /\ panic_message = Some([text |-> "JSON was not well-formatted in: ",
                             file |-> <<"pkgA", "package.json">>])
    /\ found_ts_config # <<>>
    /\ Len(all_files) = 3
    /\ threads = 0

\* C21: a file whose extraction fails inside its worker is skipped and the scan
\* still completes: unless a config file aborts the run, scan eventually
\* returns, and what it returns is exactly one ParsedFile for every file whose
\* extraction succeeds and none for the others.
C21_FailureAbsorbed ==
    /\ <>(pc = "returned" \/ pc = "aborted")
    /\ [](pc = "returned" =>
            \A k \in 1..Len(all_files) :
                Cardinality({i \in 1..Len(parsed_files) :
                                parsed_files[i].path = all_files[k]})
                    = (IF ParseSucceeds(all_files[k]) THEN 1 ELSE 0))

====
